---- MODULE Spec2Model ----
(***************************************************************************)
(* Model of x-pack/plugins/security/index.js: the onPostAuth request       *)
(* authorization interceptor, the scoped saved-objects client factories    *)
(* and the replaceInjectedVars post-processing, all gated by               *)
(* authorization.mode.useRbac().                                           *)
(*                                                                         *)
(* Strings are sequences of one-character strings, so that startsWith,     *)
(* split and the template literals are computed and not assumed.           *)
(***************************************************************************)
EXTENDS Integers, Sequences, FiniteSets, TLC

\* ------------------------------------------------------------------ bounds
MaxSegs == 3      \* path segments of a generated request path
MaxTags == 2      \* tags on a generated route
MaxTypes == 2     \* saved object types 1..MaxTypes
MaxCaps == 2      \* capability ids 1..MaxCaps under each feature

\* ----------------------------------------------------------- string helpers
Range(s) == { s[i] : i \in 1..Len(s) }

Min(a, b) == IF a < b THEN a ELSE b

\* String.prototype.startsWith
StartsWith(s, p) == Len(s) >= Len(p) /\ SubSeq(s, 1, Len(p)) = p

\* String.prototype.includes (used by a mutant only)
Includes(s, p) == \E i \in 1..Len(s) : i + Len(p) - 1 <= Len(s) /\ SubSeq(s, i, i + Len(p) - 1) = p

\* String.prototype.split(sep) for a one-character separator
RECURSIVE Split(_, _)
Split(s, sep) ==
  IF \E i \in 1..Len(s) : s[i] = sep
  THEN LET i == CHOOSE k \in 1..Len(s) : s[k] = sep /\ \A j \in 1..(k - 1) : s[j] # sep
       IN <<SubSeq(s, 1, i - 1)>> \o Split(SubSeq(s, i + 1, Len(s)), sep)
  ELSE <<s>>

\* String.prototype.split(sep, limit): split everything, keep the first limit parts
SplitLimit(s, sep, limit) ==
  LET parts == Split(s, sep) IN SubSeq(parts, 1, Min(limit, Len(parts)))

\* array[i] with a zero-based i; an index past the end gives undefined, which a
\* template literal renders as 'undefined'
Undefined == <<"u", "n", "d", "e", "f", "i", "n", "e", "d">>
At(seq, i) == IF i + 1 <= Len(seq) THEN seq[i + 1] ELSE Undefined

\* ------------------------------------------------------------ string values
Slash == "/"
Colon == ":"
AppPrefix == <<"/", "a", "p", "p", "/">>            \* '/app/'
ApiPrefix == <<"/", "a", "p", "i", "/">>            \* '/api/'
AccessPrefix == <<"a", "c", "c", "e", "s", "s", ":">>   \* 'access:'
AppNs == <<"a", "p", "p", ":">>                     \* 'app:'
ApiNs == <<"a", "p", "i", ":">>                     \* 'api:'

\* ------------------------------------------------------------------ inputs
\* Segments a request path is built from ('' gives '/app/' and '/app//k').
Words == { <<"a", "p", "p">>, <<"a", "p", "i">>, <<"a", "p", "p", "s">>, <<"k">>, <<>> }

RECURSIVE JoinPath(_)
JoinPath(segs) == IF segs = <<>> THEN <<>> ELSE <<Slash>> \o Head(segs) \o JoinPath(Tail(segs))

SeqsUpTo(S, n) == UNION { [1..k -> S] : k \in 0..n }

Paths == { JoinPath(segs) : segs \in SeqsUpTo(Words, MaxSegs) \ {<<>>} }

\* Route tags: two access tags and one tag that is not an access tag.
TagValues == { AccessPrefix \o <<"r">>, AccessPrefix \o <<"w">>, <<"t">> }

TagLists == SeqsUpTo(TagValues, MaxTags)

Modes == {"Legacy", "Rbac"}

VARIABLES
  mode,      \* the process-wide Mode behind authorization.mode.useRbac()
  req,       \* the request in the onPostAuth interceptor
  sent,      \* the denial responses the interceptor has returned, by kind of request
  client,    \* the scoped saved objects client built for a request
  call,      \* the storage call made through that client
  audit,     \* config xpack.security.audit.enabled
  inj        \* the replaceInjectedVars invocation

vars == <<mode, req, sent, client, call, audit, inj>>

\* ------------------------------------------------- authorization service
\* authorization.mode.useRbac()
useRbac(m) == m = "Rbac"

\* authorization.actions.app.get(appId)
AppAction(appId) == AppNs \o appId

\* authorization.actions.api.get(operation)
ApiAction(operation) == ApiNs \o operation

\* The result of the function returned by checkPrivilegesDynamicallyWithRequest
\* for the required actions, when the principal is granted the actions granted.
CheckPrivileges(required, granted) ==
  [hasAllRequested |-> required \subseteq granted, missing |-> required \ granted]

\* ------------------------------------------------ onPostAuth interceptor
\* Boom.notFound()
BoomNotFound == [statusCode |-> 404, error |-> "Not Found", body |-> {"statusCode", "error", "message"}]

\* Boom.forbidden() (used by a mutant only)
BoomForbidden == [statusCode |-> 403, error |-> "Forbidden", body |-> {"statusCode", "error", "message"}]

\* h.continue
HContinue == [statusCode |-> 0, error |-> "", body |-> {}]

NoResponse == [statusCode |-> -1, error |-> "", body |-> {}]

\* if (!mode.useRbac()) return h.continue
SkipValidationNever(m) == FALSE
SkipValidation(m) == ~useRbac(m)

\* path.startsWith('/app/')
EnforceApp(path) == StartsWith(path, AppPrefix)

\* path.split('/', 3)[2] in the app branch
AppIdOfSegment1(path) == At(SplitLimit(path, Slash, 3), 1)
AppIdOf(path) == At(SplitLimit(path, Slash, 3), 2)

\* path.startsWith('/api/')
EnforceApiAnywhere(path) == Includes(path, ApiPrefix)
EnforceApi(path) == StartsWith(path, ApiPrefix)

\* tag.startsWith('access:')
IsActionTagAny(tag) == TRUE
IsActionTag(tag) == StartsWith(tag, AccessPrefix)

\* tags.filter(tag => tag.startsWith('access:'))
ActionTags(tags) == SelectSeq(tags, IsActionTag)

\* path.split('/', 3)[2] in the api branch
FeatureOf(path) == At(SplitLimit(path, Slash, 3), 2)

ApiActionsFirstTagOnly(path, tags) ==
  <<ApiAction(FeatureOf(path) \o <<Slash>> \o At(SplitLimit(ActionTags(tags)[1], Colon, 2), 1))>>

\* actionTags.map(tag => actions.api.get(`${feature}/${tag.split(':', 2)[1]}`))
ApiActions(path, tags) ==
  LET actionTags == ActionTags(tags)
      feature == FeatureOf(path)
  IN [i \in 1..Len(actionTags) |->
        ApiAction(feature \o <<Slash>> \o At(SplitLimit(actionTags[i], Colon, 2), 1))]

\* if (!checkPrivilegesResponse.hasAllRequested) in the app branch
AppDeniedRereadsMode(resp) == useRbac(mode) /\ ~resp.hasAllRequested
AppDenied(resp) == ~resp.hasAllRequested

\* if (!checkPrivilegesResponse.hasAllRequested) in the api branch
ApiDenied(resp) == ~resp.hasAllRequested

\* return Boom.notFound() in the app branch
AppDenialResponse == BoomNotFound

\* return Boom.notFound() in the api branch
ApiDenialResponseForbidden == BoomForbidden
ApiDenialResponse == BoomNotFound

\* The mutants above stand for: the mode gate dropped, the api branch matching
\* '/api/' anywhere in the path, the access filter dropped, only the first
\* access tag checked, the mode read again after the await, and a 403 in the
\* api branch.

\* Apps that exist; a request for any other appId is one for a nonexistent app.
KnownApps == { <<"k">> }

NoReq ==
  [pc |-> "idle", path |-> <<>>, tags |-> <<>>, observed |-> "none", modeReads |-> 0,
   flipped |-> FALSE,
   calls |-> <<>>, resps |-> <<>>, outcome |-> "none", response |-> NoResponse]

Continue(r) == [r EXCEPT !.pc = "done", !.outcome = "Continue", !.response = HContinue]

Deny(r, response) == [r EXCEPT !.pc = "done", !.outcome = "Denied", !.response = response]

\* Lines 246-263: the api branch up to its await, or h.continue.
ApiBranch(r) ==
  IF EnforceApi(r.path) /\ Len(ActionTags(r.tags)) > 0
  THEN [r EXCEPT !.pc = "awaitApi", !.calls = Append(@, ApiActions(r.path, r.tags))]
  ELSE Continue(r)

\* A request reaches the onPostAuth extension point.
Receive ==
  /\ req.pc = "idle"
  /\ \E path \in Paths, tags \in TagLists :
       req' = [NoReq EXCEPT !.pc = "postAuth", !.path = path, !.tags = tags]
  /\ UNCHANGED <<mode, sent, client, call, audit, inj>>

\* Lines 223-240: the handler up to its first await or its return.
OnPostAuth ==
  /\ req.pc = "postAuth"
  /\ LET r == [req EXCEPT !.observed = mode, !.modeReads = @ + 1]
     IN req' = IF SkipValidation(mode) THEN Continue(r)
               ELSE IF EnforceApp(r.path)
                    THEN [r EXCEPT !.pc = "awaitApp",
                                   !.calls = Append(@, <<AppAction(AppIdOf(r.path))>>)]
                    ELSE ApiBranch(r)
  /\ UNCHANGED <<mode, sent, client, call, audit, inj>>

\* Lines 240-263: the app check resolves and the handler runs on.
AppCheckReturns ==
  /\ req.pc = "awaitApp"
  /\ \E granted \in SUBSET Range(req.calls[Len(req.calls)]) :
       LET resp == CheckPrivileges(Range(req.calls[Len(req.calls)]), granted)
           r == [req EXCEPT !.resps = Append(@, resp)]
           kind == IF AppIdOf(req.path) \in KnownApps THEN "app" ELSE "unknown app"
       IN IF AppDenied(resp)
          THEN /\ req' = Deny(r, AppDenialResponse)
               /\ sent' = sent \cup {<<kind, AppDenialResponse>>}
          ELSE /\ req' = ApiBranch(r)
               /\ sent' = sent
  /\ UNCHANGED <<mode, client, call, audit, inj>>

\* Lines 256-263: the api check resolves and the handler returns.
ApiCheckReturns ==
  /\ req.pc = "awaitApi"
  /\ \E granted \in SUBSET Range(req.calls[Len(req.calls)]) :
       LET resp == CheckPrivileges(Range(req.calls[Len(req.calls)]), granted)
           r == [req EXCEPT !.resps = Append(@, resp)]
       IN IF ApiDenied(resp)
          THEN /\ req' = Deny(r, ApiDenialResponse)
               /\ sent' = sent \cup {<<"api", ApiDenialResponse>>}
          ELSE /\ req' = Continue(r)
               /\ sent' = sent
  /\ UNCHANGED <<mode, client, call, audit, inj>>

\* The handler has returned and the request leaves the extension point.
Leave ==
  /\ req.pc = "done"
  /\ req' = NoReq
  /\ UNCHANGED <<mode, sent, client, call, audit, inj>>

\* The license or feature state changes and the mode follows.
ModeChange ==
  /\ mode' \in Modes \ {mode}
  /\ req' = IF req.pc \in {"awaitApp", "awaitApi"} THEN [req EXCEPT !.flipped = TRUE] ELSE req
  /\ UNCHANGED <<sent, client, call, audit, inj>>

\* ------------------------------------------- scoped saved objects client
Types == 1..MaxTypes

Operations == {"get", "update", "bulkCreate"}

NoClient == [type |-> "none", repository |-> "none", builtIn |-> "none"]

NoCall ==
  [pc |-> "idle", operation |-> "none", types |-> {}, modeAtCall |-> "none", builtIn |-> "none",
   checks |-> <<>>, auditLog |-> <<>>, delegated |-> FALSE, error |-> "none"]

ScopedSavedObjectsClientFactoryAlwaysInternal(m) ==
  [type |-> "SavedObjectsClient", repository |-> "callWithInternalUser"]

\* savedObjects.setScopedSavedObjectsClientFactory(({ request }) => ...)
ScopedSavedObjectsClientFactory(m) ==
  IF useRbac(m)
  THEN [type |-> "SavedObjectsClient", repository |-> "callWithInternalUser"]
  ELSE [type |-> "SavedObjectsClient", repository |-> "callWithRequest"]

ScopedSavedObjectsClientWrapperFactoryAlways(m, baseClient) ==
  [type |-> "SecureSavedObjectsClientWrapper", repository |-> baseClient.repository]

\* savedObjects.addScopedSavedObjectsClientWrapperFactory(Number.MIN_VALUE, ({ client, request }) => ...)
ScopedSavedObjectsClientWrapperFactory(m, baseClient) ==
  IF useRbac(m)
  THEN [type |-> "SecureSavedObjectsClientWrapper", repository |-> baseClient.repository]
  ELSE baseClient

\* The mutants above stand for: the client factory using the internal user in
\* either mode, and the wrapper factory wrapping in either mode.

\* authorization.actions.savedObject.get(type, operation)
SavedObjectAction(type, operation) == <<"saved_object", type, operation>>

\* savedObjects.getScopedSavedObjectsClient(request): the client factory, then
\* the wrapper factory on its result, in one synchronous call.
GetScopedSavedObjectsClient ==
  /\ call.pc = "idle"
  /\ LET c == ScopedSavedObjectsClientWrapperFactory(mode, ScopedSavedObjectsClientFactory(mode))
     IN client' = [type |-> c.type, repository |-> c.repository, builtIn |-> mode]
  /\ UNCHANGED <<mode, req, sent, call, audit, inj>>

\* A storage call through the scoped client: SavedObjectsClient hands it to
\* its repository, SecureSavedObjectsClientWrapper first asks the checker.
StorageCall ==
  /\ call.pc = "idle"
  /\ client.type # "none"
  /\ \E operation \in Operations, types \in (SUBSET Types) \ {{}} :
       LET c == [NoCall EXCEPT !.operation = operation, !.types = types,
                               !.modeAtCall = mode, !.builtIn = client.builtIn]
       IN call' = IF client.type = "SecureSavedObjectsClientWrapper"
                  THEN [c EXCEPT !.pc = "awaitCheck",
                                 !.checks = <<{ SavedObjectAction(t, operation) : t \in types }>>]
                  ELSE [c EXCEPT !.pc = "done", !.delegated = TRUE]
  /\ UNCHANGED <<mode, req, sent, client, audit, inj>>

\* The check of SecureSavedObjectsClientWrapper resolves: a denial is audited
\* and fails the call, a grant is audited when auditing is enabled and the
\* call goes to the base client.
WrapperCheckReturns ==
  /\ call.pc = "awaitCheck"
  /\ \E granted \in SUBSET call.checks[1] :
       LET resp == CheckPrivileges(call.checks[1], granted)
       IN call' = IF ~resp.hasAllRequested
                  THEN [call EXCEPT !.pc = "done", !.error = "Forbidden",
                                    !.auditLog = Append(@, [outcome |-> "denied", actions |-> call.checks[1]])]
                  ELSE [call EXCEPT !.pc = "done", !.delegated = TRUE,
                                    !.auditLog = IF audit
                                                 THEN Append(@, [outcome |-> "granted", actions |-> call.checks[1]])
                                                 ELSE @]
  /\ UNCHANGED <<mode, req, sent, client, audit, inj>>

\* The storage call has returned to its caller.
CallReturns ==
  /\ call.pc = "done"
  /\ call' = NoCall
  /\ UNCHANGED <<mode, req, sent, client, audit, inj>>

\* ---------------------------------------------------- replaceInjectedVars
Features == {"discover", "dashboard"}

Capabilities == 1..MaxCaps

UICapabilityMaps == [Features -> [Capabilities -> BOOLEAN]]

\* request.route.settings.auth: false, or the name of the auth strategy
AuthSettings == {"false", "session"}

NoCaps == [f \in Features |-> [c \in Capabilities |-> FALSE]]

NoInj ==
  [pc |-> "idle", auth |-> "none", original |-> NoCaps, observed |-> "none",
   path |-> "none", checks |-> <<>>, result |-> NoCaps]

\* if (!authorization.mode.useRbac()) return originalInjectedVars
ReturnsOriginal(m) == ~useRbac(m)

IsAnonymousRouteNever(auth) == FALSE

\* request.route.settings.auth === false
IsAnonymousRoute(auth) == auth = "false"

\* The mutant above stands for the anonymous branch being dropped.

\* authorization.actions.ui.get(feature, capability)
UIAction(f, c) == <<"ui", f, c>>

\* disableUICapabilites.all(uiCapabilities)
DisableAll(caps) == [f \in DOMAIN caps |-> [c \in DOMAIN caps[f] |-> FALSE]]

\* disableUICapabilites.usingPrivileges(uiCapabilities), given the check result
DisableUsingPrivileges(caps, resp) ==
  [f \in DOMAIN caps |-> [c \in DOMAIN caps[f] |-> caps[f][c] /\ UIAction(f, c) \notin resp.missing]]

\* The ui of a route is rendered and its injected vars are post-processed.
Render ==
  /\ inj.pc = "idle"
  /\ \E auth \in AuthSettings, caps \in UICapabilityMaps :
       inj' = [NoInj EXCEPT !.pc = "start", !.auth = auth, !.original = caps]
  /\ UNCHANGED <<mode, req, sent, client, call, audit>>

\* Lines 100-119: replaceInjectedVars up to its await or its return.
ReplaceInjectedVars ==
  /\ inj.pc = "start"
  /\ LET i == [inj EXCEPT !.observed = mode]
     IN inj' = IF ReturnsOriginal(mode)
               THEN [i EXCEPT !.pc = "done", !.path = "original", !.result = inj.original]
               ELSE IF IsAnonymousRoute(inj.auth)
                    THEN [i EXCEPT !.pc = "done", !.path = "all", !.result = DisableAll(inj.original)]
                    ELSE [i EXCEPT !.pc = "awaitPrivileges", !.path = "usingPrivileges",
                                   !.checks = <<{ UIAction(f, c) : f \in Features, c \in Capabilities }>>]
  /\ UNCHANGED <<mode, req, sent, client, call, audit>>

\* Lines 117-120: the batched check of usingPrivileges resolves.
UsingPrivilegesReturns ==
  /\ inj.pc = "awaitPrivileges"
  /\ \E granted \in SUBSET inj.checks[1] :
       inj' = [inj EXCEPT !.pc = "done",
                          !.result = DisableUsingPrivileges(inj.original, CheckPrivileges(inj.checks[1], granted))]
  /\ UNCHANGED <<mode, req, sent, client, call, audit>>

\* The injected vars have been returned.
Rendered ==
  /\ inj.pc = "done"
  /\ inj' = NoInj
  /\ UNCHANGED <<mode, req, sent, client, call, audit>>

Init ==
  /\ mode \in Modes
  /\ req = NoReq
  /\ sent = {}
  /\ client = NoClient
  /\ call = NoCall
  /\ audit = FALSE
  /\ inj = NoInj

NextInterceptor == Receive \/ OnPostAuth \/ AppCheckReturns \/ ApiCheckReturns \/ Leave \/ ModeChange

SpecInterceptor == Init /\ [][NextInterceptor]_vars

\* xpack.security.audit.enabled is configuration: either value
InitStorage ==
  /\ mode \in Modes
  /\ req = NoReq
  /\ sent = {}
  /\ client = NoClient
  /\ call = NoCall
  /\ audit \in BOOLEAN
  /\ inj = NoInj

NextStorage ==
  GetScopedSavedObjectsClient \/ StorageCall \/ WrapperCheckReturns \/ CallReturns \/ ModeChange

SpecStorage == InitStorage /\ [][NextStorage]_vars

NextInjectedVars == Render \/ ReplaceInjectedVars \/ UsingPrivilegesReturns \/ Rendered \/ ModeChange

SpecInjectedVars == Init /\ [][NextInjectedVars]_vars

\* ------------------------------------------------ interceptor properties
Last(seq) == seq[Len(seq)]

Entered == req.pc \in {"awaitApp", "awaitApi", "done"}

HasAccessTag(tags) == \E i \in 1..Len(tags) : StartsWith(tags[i], AccessPrefix)

\* id is the segment that follows the five-character prefix of path
SegmentAfterPrefix(path, id) ==
  /\ Slash \notin Range(id)
  /\ 5 + Len(id) <= Len(path)
  /\ SubSeq(path, 6, 5 + Len(id)) = id
  /\ (5 + Len(id) = Len(path) \/ path[6 + Len(id)] = Slash)

Segments == { SubSeq(req.path, 6, k) : k \in 5..Len(req.path) }

\* C1: a request whose mode read gave Legacy ends in Continue and the checker
\* is never invoked for it, whatever its path and route tags.
C1_LegacyContinuesUnchecked ==
  (Entered /\ req.observed = "Legacy")
    => (req.pc = "done" /\ req.outcome = "Continue" /\ req.calls = <<>> /\ req.resps = <<>>)

C1_Witness ==
  /\ req.pc = "done" /\ req.observed = "Legacy" /\ req.outcome = "Continue"
  /\ StartsWith(req.path, ApiPrefix) /\ HasAccessTag(req.tags)

\* C2: in Rbac mode a request under /app/<appId> has the checker called with
\* exactly app:<appId>; it continues only if hasAllRequested was true and is
\* denied if it was false.
C2_AppBranch ==
  (Entered /\ req.observed = "Rbac" /\ StartsWith(req.path, AppPrefix))
    => /\ \E id \in Segments :
            SegmentAfterPrefix(req.path, id) /\ req.calls = << <<AppNs \o id>> >>
       /\ req.pc = "done" =>
            /\ Len(req.resps) = 1
            /\ req.outcome = "Continue" <=> req.resps[1].hasAllRequested
            /\ req.outcome = "Denied" <=> ~req.resps[1].hasAllRequested

C2_Witness ==
  /\ req.pc = "done" /\ req.observed = "Rbac" /\ req.outcome = "Denied"
  /\ StartsWith(req.path, AppPrefix) /\ Len(req.path) > 6

\* The operation an access tag names: what follows 'access:'.
OperationOf(tag) == SubSeq(tag, Len(AccessPrefix) + 1, Len(tag))

AccessTagIndexes(tags) == { i \in 1..Len(tags) : StartsWith(tags[i], AccessPrefix) }

\* C3: in Rbac mode a request under /api/<feature> on a route with access tags
\* has the checker called once with api:<feature>/<operation>, one per access
\* tag and nothing for the other tags; it is denied whenever one of them is
\* missing and continues only if all are satisfied.
C3_ApiBranch ==
  (Entered /\ req.observed = "Rbac" /\ StartsWith(req.path, ApiPrefix) /\ HasAccessTag(req.tags))
    => /\ Len(req.calls) = 1
       /\ Len(req.calls[1]) = Cardinality(AccessTagIndexes(req.tags))
       /\ \E feature \in Segments :
            /\ SegmentAfterPrefix(req.path, feature)
            /\ Range(req.calls[1]) =
                 { ApiNs \o feature \o <<Slash>> \o OperationOf(req.tags[i]) :
                     i \in AccessTagIndexes(req.tags) }
       /\ req.pc = "done" =>
            /\ Len(req.resps) = 1
            /\ req.outcome = "Denied" <=> ~req.resps[1].hasAllRequested
            /\ req.outcome = "Denied" <=> req.resps[1].missing # {}
            /\ req.outcome = "Continue" <=> req.resps[1].hasAllRequested

C3_Witness ==
  /\ req.pc = "done" /\ req.observed = "Rbac" /\ req.outcome = "Denied"
  /\ StartsWith(req.path, ApiPrefix)
  /\ Cardinality(Range(req.calls[1])) = 2 /\ Cardinality(req.resps[1].missing) = 1

\* C4: in Rbac mode a request that is neither under /app/ nor an /api/ request
\* on a route with an access tag continues without the checker being invoked.
C4_OtherRoutesContinue ==
  (/\ Entered /\ req.observed = "Rbac"
   /\ ~StartsWith(req.path, AppPrefix)
   /\ ~(StartsWith(req.path, ApiPrefix) /\ HasAccessTag(req.tags)))
    => (req.pc = "done" /\ req.outcome = "Continue" /\ req.calls = <<>> /\ req.resps = <<>>)

C4_Witness ==
  /\ req.pc = "done" /\ req.observed = "Rbac" /\ req.outcome = "Continue"
  /\ StartsWith(req.path, ApiPrefix) /\ req.tags # <<>> /\ ~HasAccessTag(req.tags)

\* C5: every denial of the interceptor is the same not-found response, for an
\* existing app, a nonexistent app and an api route alike.
C5_DenialsIndistinguishable ==
  /\ \A a \in sent : a[2].statusCode = 404 /\ \A b \in sent : a[2] = b[2]
  /\ req.outcome = "Denied" => \E a \in sent : req.response = a[2]

C5_Witness ==
  /\ {"app", "unknown app", "api"} \subseteq { a[1] : a \in sent }
  /\ req.outcome = "Denied"

\* C7: the mode is read once, before any checker call, and a mode change while
\* the request is suspended in the check does not change its outcome.
C7_ModeReadOnce ==
  /\ Entered => req.modeReads = 1
  /\ req.calls # <<>> => req.modeReads = 1
  /\ req.pc \in {"idle", "postAuth"} => (req.modeReads = 0 /\ req.calls = <<>>)
  /\ (req.pc = "done" /\ req.observed = "Rbac" /\ req.resps # <<>> /\ ~Last(req.resps).hasAllRequested)
       => req.outcome = "Denied"
  /\ (req.pc = "done" /\ req.observed = "Legacy")
       => (req.outcome = "Continue" /\ req.calls = <<>>)

C7_Witness ==
  /\ req.pc = "done" /\ req.flipped /\ req.observed = "Rbac" /\ mode = "Legacy"
  /\ req.outcome = "Denied"

\* C10: the checker is invoked at most once per request.
C10_AtMostOneCheck ==
  /\ Len(req.calls) <= 1
  /\ Len(req.resps) <= Len(req.calls)
  /\ req.pc = "awaitApi" => ~StartsWith(req.path, AppPrefix)

C10_Witness ==
  /\ req.pc = "done" /\ req.observed = "Rbac" /\ req.outcome = "Continue"
  /\ Len(req.calls) = 1
  /\ StartsWith(req.path, AppPrefix) /\ Includes(req.path, ApiPrefix) /\ HasAccessTag(req.tags)

AllFalse(caps) == \A f \in DOMAIN caps : \A c \in DOMAIN caps[f] : caps[f][c] = FALSE

\* C8 as stated: for an anonymous request the disable-all path is taken, every
\* capability flag of the result is false and the checker is not consulted.
C8_AnonymousAllDisabled ==
  (inj.pc = "done" /\ inj.auth = "false")
    => (inj.path = "all" /\ AllFalse(inj.result) /\ inj.checks = <<>>)

\* C8 amended: in Rbac mode an anonymous request takes the disable-all path,
\* every capability flag of the result is false and the checker is not
\* consulted; in Legacy mode the capabilities are returned as they came, also
\* without the checker.
C8_AnonymousAllDisabledInRbac ==
  /\ (inj.pc # "start" /\ inj.auth = "false" /\ inj.observed = "Rbac")
       => (inj.pc = "done" /\ inj.path = "all" /\ AllFalse(inj.result) /\ inj.checks = <<>>
           /\ DOMAIN inj.result = DOMAIN inj.original)
  /\ (inj.pc # "start" /\ inj.auth = "false" /\ inj.observed = "Legacy")
       => (inj.pc = "done" /\ inj.path = "original" /\ inj.result = inj.original /\ inj.checks = <<>>)

C8_Witness ==
  /\ inj.pc = "done" /\ inj.auth = "false" /\ inj.observed = "Rbac"
  /\ ~AllFalse(inj.original) /\ AllFalse(inj.result)

====
